---- MODULE Spec2Model ----
(***************************************************************************)
(* Model of the DATA-MINER local runner.                                   *)
(*                                                                         *)
(*   - the Go runner  (src/src/local_runner/go_runner_integration.go):     *)
(*     LocalRunner with its cron engine, executeJob and saveJobResult;     *)
(*   - the PowerShell runner (src/scripts/local_ci_runner.ps1): one        *)
(*     script invocation per command line, Invoke-DataMinerJob and the     *)
(*     Windows scheduled tasks it registers.                               *)
(*                                                                         *)
(* Time is the wall clock in seconds since Monday 2024-01-01 00:00:00,     *)
(* which is also the first day of a month.  The clock jumps from one       *)
(* event to the next (a cron slot, a context deadline, one second after a  *)
(* process start); the Go statements that follow the process wait take no  *)
(* time.  Log writes of the PowerShell script are assumed to succeed.      *)
(*                                                                         *)
(* The two runners are alternatives for one host (the Go binary started by *)
(* the Makefile, the script with the Windows Task Scheduler) and share no  *)
(* state: a behaviour follows one of them.                                 *)
(*                                                                         *)
(* Specifications: Spec (built-in catalog, Start called directly, and the  *)
(* script), SpecLoad (Start with other catalogs handed to addJob, two      *)
(* slots a minute apart), SpecMake (the runner process under the Makefile  *)
(* targets local-runner-start, -stop, -status and analyze-ecosystem),      *)
(* SpecOnce (Start called once, as main does, over two slots of the        *)
(* half-hourly job).                                                       *)
(***************************************************************************)
EXTENDS Integers, Sequences, FiniteSets, TLC

\* ------------------------------------------------------------------ bounds
MaxTime == 2100          \* the clock stops here
MaxStarts == 2           \* calls of LocalRunner.Start
MaxInvocations == 2      \* invocations of local_ci_runner.ps1
MaxLoadTime == 1090      \* the clock stops here under SpecLoad
MaxOutput == 3           \* bytes the most talkative process writes
MaxOnceTime == 3700      \* the clock stops here under SpecOnce
MaxMakes == 3            \* runs of Makefile targets that change no file or process
InitNow == 1000          \* wall clock when the runner process is created

ExitCodes == {0, 1, 3}   \* exit codes the external programs are given

\* What a process writes to stdout and stderr together, in bytes.
OutputSizes == {0, MaxOutput}

\* The ways a process ends by itself: with any of the exit codes and no
\* output, or with exit code 0 after MaxOutput bytes of output.
ProcessEnds ==
  {[exit |-> c, output |-> 0] : c \in ExitCodes}
  \cup {[exit |-> 0, output |-> MaxOutput]}

\* ------------------------------------------------------------- time units
Minute == 60             \* time.Minute, in seconds
Hour == 60 * Minute
Day == 24 * Hour
Week == 7 * Day

Min(S) == CHOOSE x \in S : \A y \in S : x <= y

\* =========================================================================
\*                               Go runner
\* =========================================================================

VARIABLES
  now,          \* wall clock, seconds
  starts,       \* number of Start() calls made
  cronRunning,  \* cron.Cron.running
  heap,         \* the Job objects allocated so far; a *Job is an index
  jobs,         \* LocalRunner.jobs : ID -> *Job
  entries,      \* the entries of the cron engine
  execs,        \* the calls of executeJob (goroutines), in start order
  files,        \* the result files under LogPath : name -> content
  writeFails    \* result files whose os.WriteFile failed (error dropped)

\* ---- PowerShell runner
VARIABLES
  hostTools,    \* the commands Get-Command resolves on the host
  tasks,        \* Windows Task Scheduler : task name -> task
  runs          \* the invocations of local_ci_runner.ps1, in start order

\* ---- Makefile targets of the Go runner, and the process they start
VARIABLES
  shell,        \* the /bin/sh that make runs the recipes with, "" before use
  runnerProc,   \* the process of bin/data-miner-runner
  pidFile,      \* the words in .runner.pid, <<>> when the file is absent
  environ,      \* os.Environ() of the runner process
  config,       \* LocalRunner.config
  stderr,       \* what the runner process has written to standard error
  console       \* the last run of a Makefile target: what it printed and ran

govars == <<now, starts, cronRunning, heap, jobs, entries, execs, files, writeFails>>
psvars == <<hostTools, tasks, runs>>
mkvars == <<shell, runnerProc, pidFile, environ, config, stderr, console>>
vars == <<now, starts, cronRunning, heap, jobs, entries, execs, files, writeFails,
          hostTools, tasks, runs, shell, runnerProc, pidFile, environ, config, stderr,
          console>>

\* ------------------------------------------------------- addDataMinerJobs
\* The four Job literals of addDataMinerJobs, in the order they are added.
\* Variant: the synchronisation is given 45 minutes.
DataMinerJobsSlowSync ==
  << [ID |-> "ecosystem-mining-weekly", Command |-> "python3",
      Schedule |-> "0 2 * * 1", Timeout |-> 30 * Minute, Status |-> "active"],
     [ID |-> "governance-report-daily", Command |-> "python3",
      Schedule |-> "0 8 * * *", Timeout |-> 10 * Minute, Status |-> "active"],
     [ID |-> "cleanup-old-artifacts", Command |-> "powershell",
      Schedule |-> "0 1 1 * *", Timeout |-> 15 * Minute, Status |-> "active"],
     [ID |-> "sync-devtools-hub", Command |-> "make",
      Schedule |-> "*/30 * * * *", Timeout |-> 45 * Minute, Status |-> "active"] >>

DataMinerJobs ==
  << [ID |-> "ecosystem-mining-weekly", Command |-> "python3",
      Schedule |-> "0 2 * * 1", Timeout |-> 30 * Minute, Status |-> "active"],
     [ID |-> "governance-report-daily", Command |-> "python3",
      Schedule |-> "0 8 * * *", Timeout |-> 10 * Minute, Status |-> "active"],
     [ID |-> "cleanup-old-artifacts", Command |-> "powershell",
      Schedule |-> "0 1 1 * *", Timeout |-> 15 * Minute, Status |-> "active"],
     [ID |-> "sync-devtools-hub", Command |-> "make",
      Schedule |-> "*/30 * * * *", Timeout |-> 5 * Minute, Status |-> "active"] >>

JobIDs == {DataMinerJobs[i].ID : i \in DOMAIN DataMinerJobs}

\* ------------------------------------------------------------ cron engine
\* Smallest instant strictly after t that is congruent to offset modulo
\* period.
PeriodNext(t, period, offset) ==
  LET base == (t \div period) * period + offset
  IN  IF base > t THEN base ELSE base + period

\* First instants of the months of 2024, in days since the epoch.
MonthStartDays == <<0, 31, 60, 91, 121, 152, 182, 213, 244, 274, 305, 335, 366>>

\* The standard five-field parser of robfig/cron accepts these expressions.
ParseOK(schedule) ==
  schedule \in {"0 2 * * 1", "0 8 * * *", "0 1 1 * *", "*/30 * * * *",
                "* * * * *", "*/2 * * * *"}

\* Schedule.Next(t): the next activation time, later than t.
CronNext(schedule, t) ==
  CASE schedule = "*/30 * * * *" -> PeriodNext(t, 30 * Minute, 0)
    [] schedule = "* * * * *"    -> PeriodNext(t, Minute, 0)
    [] schedule = "*/2 * * * *"  -> PeriodNext(t, 2 * Minute, 0)
    [] schedule = "0 8 * * *"    -> PeriodNext(t, Day, 8 * Hour)
    [] schedule = "0 2 * * 1"    -> PeriodNext(t, Week, 2 * Hour)
    [] schedule = "0 1 1 * *"    ->
         LET slots == {MonthStartDays[i] * Day + Hour : i \in DOMAIN MonthStartDays}
             later == {s \in slots : s > t}
         IN  IF later # {} THEN Min(later) ELSE PeriodNext(t, 366 * Day, Hour)

\* ------------------------------------------------------------------ addJob
\* addJob on the runner state st = [heap, jobs, entries]: the job is
\* allocated, stored under its ID, and registered with the cron engine when
\* its schedule is not empty and parses (the error of AddFunc is dropped).
\* An entry added while the engine runs gets its next time at once.
\* Variant: a job with no schedule of its own is registered to run every
\* minute.
addJobDefaultSchedule(st, job, running, t) ==
  LET ptr == Len(st.heap) + 1
      schedule == IF job.Schedule = "" THEN "* * * * *" ELSE job.Schedule
      registered == ParseOK(schedule)
      entry == [job |-> ptr,
                schedule |-> schedule,
                next |-> IF running THEN CronNext(schedule, t) ELSE 0]
  IN  [heap    |-> Append(st.heap, job),
       jobs    |-> [st.jobs EXCEPT ![job.ID] = ptr],
       entries |-> IF registered THEN Append(st.entries, entry) ELSE st.entries]

addJob(st, job, running, t) ==
  LET ptr == Len(st.heap) + 1
      registered == job.Schedule # "" /\ ParseOK(job.Schedule)
      entry == [job |-> ptr,
                schedule |-> job.Schedule,
                next |-> IF running THEN CronNext(job.Schedule, t) ELSE 0]
  IN  [heap    |-> Append(st.heap, job),
       jobs    |-> [st.jobs EXCEPT ![job.ID] = ptr],
       entries |-> IF registered THEN Append(st.entries, entry) ELSE st.entries]

RECURSIVE addJobs(_, _, _, _, _)
addJobs(st, list, i, running, t) ==
  IF i > Len(list) THEN st
  ELSE addJobs(addJob(st, list[i], running, t), list, i + 1, running, t)

addDataMinerJobs(st, running, t) == addJobs(st, DataMinerJobs, 1, running, t)

\* cron.Start(): a no-op when already running; otherwise every entry gets
\* its next activation time computed from the current time.
cronStart(es, running, t) ==
  IF running THEN es
  ELSE [i \in DOMAIN es |-> [es[i] EXCEPT !.next = CronNext(es[i].schedule, t)]]

\* ------------------------------------------------------------------- Start
Start ==
  /\ starts < MaxStarts
  /\ runs = <<>>
  /\ LET st == addDataMinerJobs([heap |-> heap, jobs |-> jobs, entries |-> entries],
                                cronRunning, now)
     IN  /\ heap' = st.heap
         /\ jobs' = st.jobs
         /\ entries' = cronStart(st.entries, cronRunning, now)
  /\ cronRunning' = TRUE
  /\ starts' = starts + 1
  /\ UNCHANGED <<now, execs, files, writeFails>>
  /\ UNCHANGED psvars
  /\ UNCHANGED mkvars

\* ------------------------------------------------------------- cron firing
\* Indices of the entries that are due at time t, in entry order.
\* Variant: cron.New(cron.WithChain(cron.SkipIfStillRunning(...))), a due
\* entry is passed over while an earlier run of its job has not returned.
DueEntriesSkipIfStillRunning(es, t) ==
  SelectSeq([i \in DOMAIN es |-> i],
            LAMBDA i : /\ es[i].next <= t
                       /\ \A e \in DOMAIN execs :
                            execs[e].job = es[i].job => execs[e].pc = "done")

DueEntries(es, t) == SelectSeq([i \in DOMAIN es |-> i], LAMBDA i : es[i].next <= t)

NoErr == [kind |-> "nil", code |-> 0]
ExitError(c) == [kind |-> "exit", code |-> c]
KilledError == [kind |-> "killed", code |-> -1]
LaunchError == [kind |-> "launch", code |-> -1]

NoResult == [job_id |-> "", executed_at |-> -1, duration_ms |-> -1,
             status |-> "", output |-> -1, error |-> [msg |-> "", n |-> 0]]

\* A goroutine that is about to call executeJob(job).
NewExec(ptr, inflight) ==
  [job |-> ptr, pc |-> "begin", start |-> -1, err |-> NoErr, spawned |-> FALSE,
   env |-> <<>>, exit |-> -1, output |-> 0, timedOut |-> FALSE, duration |-> -1, saves |-> 0,
   result |-> NoResult, file |-> <<>>, written |-> FALSE, with |-> inflight,
   log |-> <<>>]

InFlight == {i \in DOMAIN execs : execs[i].pc # "done"}

\* The run loop of the cron engine: every due entry starts its job in a new
\* goroutine and gets its next activation time, computed from now.
\* Variant: the jobs run on the goroutine of the run loop, which looks at
\* the entries again only when no job is waiting for its process.
CronFireSerialized ==
  /\ cronRunning
  /\ \A e \in DOMAIN execs : execs[e].pc # "wait"
  /\ LET due == DueEntries(entries, now)
         n == Len(execs)
         fresh == {n + k : k \in 1..Len(due)}
     IN  /\ Len(due) > 0
         /\ execs' = execs \o [k \in 1..Len(due) |->
                         NewExec(entries[due[k]].job, InFlight \cup (fresh \ {n + k}))]
         /\ entries' = [i \in DOMAIN entries |->
                         IF entries[i].next <= now
                         THEN [entries[i] EXCEPT !.next = CronNext(entries[i].schedule, now)]
                         ELSE entries[i]]
  /\ UNCHANGED <<now, starts, cronRunning, heap, jobs, files, writeFails>>
  /\ UNCHANGED psvars
  /\ UNCHANGED mkvars

CronFire ==
  /\ cronRunning
  /\ LET due == DueEntries(entries, now)
         n == Len(execs)
         fresh == {n + k : k \in 1..Len(due)}
     IN  /\ Len(due) > 0
         /\ execs' = execs \o [k \in 1..Len(due) |->
                         NewExec(entries[due[k]].job, InFlight \cup (fresh \ {n + k}))]
         /\ entries' = [i \in DOMAIN entries |->
                         IF entries[i].next <= now
                         THEN [entries[i] EXCEPT !.next = CronNext(entries[i].schedule, now)]
                         ELSE entries[i]]
  /\ UNCHANGED <<now, starts, cronRunning, heap, jobs, files, writeFails>>
  /\ UNCHANGED psvars
  /\ UNCHANGED mkvars

\* ------------------------------------------- configuration and environment
\* GoRunnerConfig, the fields the runner reads; the zero value is what
\* json.Unmarshal leaves of a field the file does not set.
ZeroConfig == [RunnerID |-> "", WorkspacePath |-> "", LogPath |-> "", GitHubToken |-> ""]

\* An element "KEY=value" of an environment.
EnvEntry(k, v) == [key |-> k, value |-> v]

Unset == [set |-> FALSE, value |-> ""]

\* The value a process finds for key in the environment env it was started
\* with: os/exec keeps the last entry of a key that occurs more than once.
RECURSIVE Getenv(_, _, _)
Getenv(env, key, i) ==
  IF i = 0 THEN Unset
  ELSE IF env[i].key = key THEN [set |-> TRUE, value |-> env[i].value]
  ELSE Getenv(env, key, i - 1)

\* Lines 167-172: the entries appended to os.Environ() for the child.
AddedEnv(cfg) ==
  << EnvEntry("GITHUB_TOKEN", cfg.GitHubToken),
     EnvEntry("DATA_MINER_RUNNER_ID", cfg.RunnerID),
     EnvEntry("DATA_MINER_WORKSPACE", cfg.WorkspacePath) >>

ChildEnv(inherited, cfg) == inherited \o AddedEnv(cfg)

\* -------------------------------------------------------------- executeJob
Deadline(e) == execs[e].start + heap[execs[e].job].Timeout

\* Lines 156-175, up to the start of the process: the start time is taken,
\* the context gets its deadline, the environment of the child is built, and
\* the command is started or fails to start (binary not found, permission
\* denied).
executeJobBegin(e) ==
  /\ execs[e].pc = "begin"
  /\ \E launched \in BOOLEAN :
       execs' = [execs EXCEPT ![e] =
         IF launched
         THEN [@ EXCEPT !.start = now, !.pc = "wait", !.spawned = TRUE,
                        !.env = ChildEnv(environ, config),
                        !.log = Append(@, "Demarrage job")]
         ELSE [@ EXCEPT !.start = now, !.pc = "returned", !.err = LaunchError,
                        !.env = ChildEnv(environ, config),
                        !.log = Append(@, "Demarrage job")]]
  /\ UNCHANGED <<now, starts, cronRunning, heap, jobs, entries, files, writeFails>>
  /\ UNCHANGED psvars
  /\ UNCHANGED mkvars

\* The process exits by itself before the deadline: CombinedOutput returns
\* all it wrote, with nil for exit code 0 and an *exec.ExitError otherwise.
\* Variant: a nonzero exit code ends the runner (log.Fatalf).
ProcessExitFatal(e) ==
  /\ execs[e].pc = "wait"
  /\ now < Deadline(e)
  /\ \E end \in ProcessEnds :
       /\ execs' = [execs EXCEPT ![e] =
            [@ EXCEPT !.pc = "returned", !.exit = end.exit, !.output = end.output,
                      !.err = IF end.exit = 0 THEN NoErr ELSE ExitError(end.exit)]]
       /\ cronRunning' = (cronRunning /\ end.exit = 0)
  /\ UNCHANGED <<now, starts, heap, jobs, entries, files, writeFails>>
  /\ UNCHANGED psvars
  /\ UNCHANGED mkvars

ProcessExit(e) ==
  /\ execs[e].pc = "wait"
  /\ now < Deadline(e)
  /\ \E end \in ProcessEnds :
       execs' = [execs EXCEPT ![e] =
         [@ EXCEPT !.pc = "returned", !.exit = end.exit, !.output = end.output,
                   !.err = IF end.exit = 0 THEN NoErr ELSE ExitError(end.exit)]]
  /\ UNCHANGED <<now, starts, cronRunning, heap, jobs, entries, files, writeFails>>
  /\ UNCHANGED psvars
  /\ UNCHANGED mkvars

\* The context of exec.CommandContext is done while the process still
\* runs: the process is killed and CombinedOutput returns what it wrote
\* until then, with an error.
ContextDeadline(e) ==
  /\ execs[e].pc = "wait"
  /\ now >= Deadline(e)
  /\ \E out \in OutputSizes :
       execs' = [execs EXCEPT ![e] =
         [@ EXCEPT !.pc = "returned", !.timedOut = TRUE, !.output = out,
                   !.err = KilledError]]
  /\ UNCHANGED <<now, starts, cronRunning, heap, jobs, entries, files, writeFails>>
  /\ UNCHANGED psvars
  /\ UNCHANGED mkvars

\* Lines 176-185: the duration is measured and job.Status is assigned.
\* Variant: only an *exec.ExitError counts as a failure.
StatusOfExitErrorOnly(err) == IF err.kind = "exit" THEN "failed" ELSE "completed"

StatusOf(err) == IF err # NoErr THEN "failed" ELSE "completed"

\* Variant: the error branch returns without saving a result.
executeJobStatusReturnOnError(e) ==
  /\ execs[e].pc = "returned"
  /\ heap' = [heap EXCEPT ![execs[e].job].Status = StatusOf(execs[e].err)]
  /\ execs' = [execs EXCEPT ![e] =
       [@ EXCEPT !.pc = IF execs[e].err # NoErr THEN "done" ELSE "save",
                 !.duration = now - execs[e].start,
                 !.log = Append(@, IF execs[e].err # NoErr THEN "ERREUR job"
                                                           ELSE "SUCCES job")]]
  /\ UNCHANGED <<now, starts, cronRunning, jobs, entries, files, writeFails>>
  /\ UNCHANGED psvars
  /\ UNCHANGED mkvars

executeJobStatus(e) ==
  /\ execs[e].pc = "returned"
  /\ heap' = [heap EXCEPT ![execs[e].job].Status = StatusOf(execs[e].err)]
  /\ execs' = [execs EXCEPT ![e] =
       [@ EXCEPT !.pc = "save", !.duration = now - execs[e].start,
                 !.log = Append(@, IF execs[e].err # NoErr THEN "ERREUR job"
                                                           ELSE "SUCCES job")]]
  /\ UNCHANGED <<now, starts, cronRunning, jobs, entries, files, writeFails>>
  /\ UNCHANGED psvars
  /\ UNCHANGED mkvars

\* ----------------------------------------------------------- saveJobResult
\* err.Error()
ErrorString(err) ==
  CASE err.kind = "exit"   -> [msg |-> "exit status", n |-> err.code]
    [] err.kind = "killed" -> [msg |-> "signal: killed", n |-> 0]
    [] err.kind = "launch" -> [msg |-> "exec: executable file not found", n |-> 0]
    [] OTHER               -> [msg |-> "null", n |-> 0]

\* The result map of lines 193-205; status is read from the Job object.
ResultOf(job, output, duration, err, t) ==
  [job_id |-> job.ID, executed_at |-> t, duration_ms |-> duration * 1000,
   status |-> job.Status, output |-> output,
   error |-> IF err # NoErr THEN ErrorString(err) ELSE [msg |-> "null", n |-> 0]]

\* job_<ID>_<timestamp>.json, the timestamp having a resolution of a second.
ResultFile(job, t) == <<job.ID, t>>

\* os.WriteFile: creates the file or replaces its content.
WriteFile(fs, name, data) ==
  {f \in fs : f.name # name} \cup {[name |-> name, data |-> data]}

saveJobResult(e) ==
  /\ execs[e].pc = "save"
  /\ LET job == heap[execs[e].job]
         result == ResultOf(job, execs[e].output, execs[e].duration, execs[e].err, now)
         name == ResultFile(job, now)
     IN  \E ok \in BOOLEAN :
           /\ files' = IF ok THEN WriteFile(files, name, result) ELSE files
           /\ writeFails' = IF ok THEN writeFails ELSE writeFails \cup {name}
           /\ execs' = [execs EXCEPT ![e] =
                [@ EXCEPT !.pc = "done", !.saves = @ + 1, !.result = result,
                          !.file = name, !.written = ok]]
  /\ UNCHANGED <<now, starts, cronRunning, heap, jobs, entries>>
  /\ UNCHANGED psvars
  /\ UNCHANGED mkvars

\* =========================================================================
\*                           PowerShell runner
\* =========================================================================

\* $DataMinerJobs: the catalog of the script (timeout in seconds).
PSDataMinerJobs ==
  [x \in {"ecosystem-mining", "governance-report", "dashboard-update",
          "sync-devtools", "antipatterns-scan"} |->
    CASE x = "ecosystem-mining" ->
           [command |-> "python", timeout |-> 1800, schedule |-> "daily",
            dependencies |-> <<"python", "pip">>]
      [] x = "governance-report" ->
           [command |-> "python", timeout |-> 600, schedule |-> "daily",
            dependencies |-> <<"python">>]
      [] x = "dashboard-update" ->
           [command |-> "python", timeout |-> 300, schedule |-> "hourly",
            dependencies |-> <<"python", "streamlit">>]
      [] x = "sync-devtools" ->
           [command |-> "make", timeout |-> 900, schedule |-> "hourly",
            dependencies |-> <<"make", "git">>]
      [] x = "antipatterns-scan" ->
           [command |-> "python", timeout |-> 1200, schedule |-> "daily",
            dependencies |-> <<"python">>]]

PSJobIDs == DOMAIN PSDataMinerJobs

AllTools == {"python", "pip", "streamlit", "make", "git"}

\* The hosts the script is run on: every tool installed, or pip missing.
HostToolSets == {AllTools, AllTools \ {"pip"}}

\* The command lines the script is invoked with: <<Action, JobName, Schedule>>
\* (JobName "" when -JobName is not given; Schedule defaults to manual).
CommandLines ==
  ({"execute-job"} \X {"ecosystem-mining", "dashboard-update", "", "no-such-job"}
                   \X {"manual"})
  \cup ({"start-runner"} \X {""} \X {"manual", "daily"})
  \cup ({"stop-runner", "status", "install-scheduler"} \X {""} \X {"manual"})

NoTask == [state |-> "absent", trigger |-> ""]
NoOutcome == [status |-> "", exit_code |-> -1, error |-> ""]

NewRun(cl) ==
  [action |-> cl[1], jobName |-> cl[2], schedule |-> cl[3], pc |-> "main",
   start |-> -1, spawned |-> FALSE, procExit |-> -1, result |-> NoOutcome,
   thrown |-> "", exit |-> -1, log |-> <<>>, taskLog |-> {}]

\* The script is started from a shell, a Makefile target or a scheduled task.
PSInvoke ==
  /\ Len(runs) < MaxInvocations
  /\ starts = 0
  /\ \E cl \in CommandLines : runs' = Append(runs, NewRun(cl))
  /\ UNCHANGED <<hostTools, tasks>>
  /\ UNCHANGED govars
  /\ UNCHANGED mkvars

\* ------------------------------------------------- Install-WindowsScheduler
\* The switch on $job.schedule: the kind of trigger, "" for no trigger.
TriggerOf(schedule) ==
  IF schedule \in {"daily", "hourly", "weekly"} THEN schedule ELSE ""

\* Variant: no try around Register-ScheduledTask, and the registration that
\* fails is the first of the loop; nothing is registered then.
InstallWindowsSchedulerAbortOnFailure(ts, failing) ==
  [j \in PSJobIDs |->
     IF TriggerOf(PSDataMinerJobs[j].schedule) # "" /\ failing = {}
     THEN [state |-> "Ready", trigger |-> TriggerOf(PSDataMinerJobs[j].schedule)]
     ELSE ts[j]]

\* Every catalog job with a trigger is registered (created or replaced,
\* -Force) unless its registration fails; a failure is logged and the loop
\* goes on.
InstallWindowsScheduler(ts, failing) ==
  [j \in PSJobIDs |->
     IF TriggerOf(PSDataMinerJobs[j].schedule) # "" /\ j \notin failing
     THEN [state |-> "Ready", trigger |-> TriggerOf(PSDataMinerJobs[j].schedule)]
     ELSE ts[j]]

RegisterFailures == {{}} \cup {{j} : j \in PSJobIDs}

\* What the loop logs for each job with a trigger: "Tache planifiee creee"
\* after Register-ScheduledTask, or at level ERROR "Erreur creation tache"
\* in the catch.
SchedulerLog(failing) ==
  { <<IF j \in failing THEN "ERROR" ELSE "INFO", j>> :
      j \in {k \in PSJobIDs : TriggerOf(PSDataMinerJobs[k].schedule) # ""} }

\* --------------------------------------------------------------------- Main
\* Variant: the catch of Main logs the error and the script ends normally.
MainInvalidJobNoExit(i) ==
  /\ runs[i].pc = "main"
  /\ runs[i].action = "execute-job"
  /\ runs[i].jobName = "" \/ runs[i].jobName \notin PSJobIDs
  /\ runs' = [runs EXCEPT ![i] =
       [@ EXCEPT !.pc = "exited", !.exit = 0, !.thrown = "Job invalide ou manquant",
                 !.log = @ \o <<"Action demandee", "ERROR Erreur execution">>]]
  /\ UNCHANGED <<hostTools, tasks>>
  /\ UNCHANGED govars
  /\ UNCHANGED mkvars

\* execute-job with a missing or unknown job name: the throw of line 239 is
\* caught by Main, logged, and the script exits with code 1.
MainInvalidJob(i) ==
  /\ runs[i].pc = "main"
  /\ runs[i].action = "execute-job"
  /\ runs[i].jobName = "" \/ runs[i].jobName \notin PSJobIDs
  /\ runs' = [runs EXCEPT ![i] =
       [@ EXCEPT !.pc = "exited", !.exit = 1, !.thrown = "Job invalide ou manquant",
                 !.log = @ \o <<"Action demandee", "ERROR Erreur execution">>]]
  /\ UNCHANGED <<hostTools, tasks>>
  /\ UNCHANGED govars
  /\ UNCHANGED mkvars

\* execute-job with a catalog job: Invoke-DataMinerJob is called.
MainExecuteJob(i) ==
  /\ runs[i].pc = "main"
  /\ runs[i].action = "execute-job"
  /\ runs[i].jobName # "" /\ runs[i].jobName \in PSJobIDs
  /\ runs' = [runs EXCEPT ![i] =
       [@ EXCEPT !.pc = "invoke", !.log = Append(@, "Action demandee")]]
  /\ UNCHANGED <<hostTools, tasks>>
  /\ UNCHANGED govars
  /\ UNCHANGED mkvars

\* start-runner: the scheduler is installed unless -Schedule is manual.
MainStartRunner(i) ==
  /\ runs[i].pc = "main"
  /\ runs[i].action = "start-runner"
  /\ \E failing \in RegisterFailures :
       /\ tasks' = IF runs[i].schedule # "manual"
                   THEN InstallWindowsScheduler(tasks, failing) ELSE tasks
       /\ runs' = [runs EXCEPT ![i] =
            [@ EXCEPT !.pc = "exited", !.exit = 0,
                      !.log = @ \o <<"Action demandee", "Demarrage Local Runner">>,
                      !.taskLog = IF runs[i].schedule # "manual"
                                  THEN SchedulerLog(failing) ELSE {}]]
  /\ UNCHANGED hostTools
  /\ UNCHANGED govars
  /\ UNCHANGED mkvars

MainInstallScheduler(i) ==
  /\ runs[i].pc = "main"
  /\ runs[i].action = "install-scheduler"
  /\ \E failing \in RegisterFailures :
       /\ tasks' = InstallWindowsScheduler(tasks, failing)
       /\ runs' = [runs EXCEPT ![i] =
            [@ EXCEPT !.pc = "exited", !.exit = 0, !.log = Append(@, "Action demandee"),
                      !.taskLog = SchedulerLog(failing)]]
  /\ UNCHANGED hostTools
  /\ UNCHANGED govars
  /\ UNCHANGED mkvars

\* status: Get-RunnerStatus only reads.
MainStatus(i) ==
  /\ runs[i].pc = "main"
  /\ runs[i].action = "status"
  /\ runs' = [runs EXCEPT ![i] =
       [@ EXCEPT !.pc = "exited", !.exit = 0, !.log = Append(@, "Action demandee")]]
  /\ UNCHANGED <<hostTools, tasks>>
  /\ UNCHANGED govars
  /\ UNCHANGED mkvars

\* stop-runner: the DataMiner-* tasks are disabled; an error of the first
\* Disable-ScheduledTask is caught and logged, and nothing is disabled.
MainStopRunner(i) ==
  /\ runs[i].pc = "main"
  /\ runs[i].action = "stop-runner"
  /\ \E ok \in BOOLEAN :
       tasks' = [j \in PSJobIDs |->
                   IF ok /\ tasks[j].state # "absent"
                   THEN [tasks[j] EXCEPT !.state = "Disabled"] ELSE tasks[j]]
  /\ runs' = [runs EXCEPT ![i] =
       [@ EXCEPT !.pc = "exited", !.exit = 0,
                 !.log = @ \o <<"Action demandee", "Arret Local Runner">>]]
  /\ UNCHANGED hostTools
  /\ UNCHANGED govars
  /\ UNCHANGED mkvars

\* ------------------------------------------------------ Invoke-DataMinerJob
\* Variant: only the first declared dependency is looked up.
FirstMissingHeadOnly(deps, i, tools) ==
  IF Len(deps) >= 1 /\ deps[1] \notin tools THEN deps[1] ELSE ""

\* The first declared dependency Get-Command does not resolve, "" if none.
RECURSIVE FirstMissing(_, _, _)
FirstMissing(deps, i, tools) ==
  IF i > Len(deps) THEN ""
  ELSE IF deps[i] \notin tools THEN deps[i]
  ELSE FirstMissing(deps, i + 1, tools)

\* Variant: the dependency check stands before the try block, so that its
\* throw reaches the catch of Main.
InvokeDataMinerJobCheckOutsideTry(i) ==
  /\ runs[i].pc = "invoke"
  /\ LET cfg == PSDataMinerJobs[runs[i].jobName]
         missing == FirstMissing(cfg.dependencies, 1, hostTools)
     IN  IF missing # ""
         THEN runs' = [runs EXCEPT ![i] =
                [@ EXCEPT !.pc = "exited", !.start = now, !.exit = 1,
                          !.thrown = "Dependance manquante",
                          !.log = @ \o <<"Demarrage job", "ERROR Erreur execution">>]]
         ELSE \E launched \in BOOLEAN :
                runs' = [runs EXCEPT ![i] =
                  IF launched
                  THEN [@ EXCEPT !.pc = "wait", !.start = now, !.spawned = TRUE,
                                 !.log = Append(@, "Demarrage job")]
                  ELSE [@ EXCEPT !.pc = "return", !.start = now,
                                 !.result = [status |-> "error", exit_code |-> -1,
                                             error |-> "Start-Process"],
                                 !.log = @ \o <<"Demarrage job", "ERROR ERREUR job">>]]
  /\ UNCHANGED <<hostTools, tasks>>
  /\ UNCHANGED govars
  /\ UNCHANGED mkvars

\* Lines 119-131: the dependencies are checked, then the process is started.
\* A missing dependency and a Start-Process that fails both throw into the
\* catch of line 143, which returns the outcome "error".
InvokeDataMinerJob(i) ==
  /\ runs[i].pc = "invoke"
  /\ LET cfg == PSDataMinerJobs[runs[i].jobName]
         missing == FirstMissing(cfg.dependencies, 1, hostTools)
     IN  IF missing # ""
         THEN runs' = [runs EXCEPT ![i] =
                [@ EXCEPT !.pc = "return", !.start = now,
                          !.result = [status |-> "error", exit_code |-> -1,
                                      error |-> "Dependance manquante"],
                          !.log = @ \o <<"Demarrage job", "ERROR ERREUR job">>]]
         ELSE \E launched \in BOOLEAN :
                runs' = [runs EXCEPT ![i] =
                  IF launched
                  THEN [@ EXCEPT !.pc = "wait", !.start = now, !.spawned = TRUE,
                                 !.log = Append(@, "Demarrage job")]
                  ELSE [@ EXCEPT !.pc = "return", !.start = now,
                                 !.result = [status |-> "error", exit_code |-> -1,
                                             error |-> "Start-Process"],
                                 !.log = @ \o <<"Demarrage job", "ERROR ERREUR job">>]]
  /\ UNCHANGED <<hostTools, tasks>>
  /\ UNCHANGED govars
  /\ UNCHANGED mkvars

\* Lines 131-141: Start-Process -Wait returns when the process has exited,
\* whenever that is; the outcome is built from the exit code.
\* Variant: the outcome of a nonzero exit carries a fixed exit code.
OutcomeOfFixedCode(code) ==
  IF code = 0 THEN [status |-> "success", exit_code |-> -1, error |-> ""]
  ELSE [status |-> "failed", exit_code |-> 1, error |-> ""]

OutcomeOf(code) ==
  IF code = 0 THEN [status |-> "success", exit_code |-> -1, error |-> ""]
  ELSE [status |-> "failed", exit_code |-> code, error |-> ""]

PSProcessExit(i) ==
  /\ runs[i].pc = "wait"
  /\ \E c \in ExitCodes :
       runs' = [runs EXCEPT ![i] =
         [@ EXCEPT !.pc = "return", !.procExit = c, !.result = OutcomeOf(c),
                   !.log = Append(@, IF c = 0 THEN "SUCCES job" ELSE "ERROR ECHEC job")]]
  /\ UNCHANGED <<hostTools, tasks>>
  /\ UNCHANGED govars
  /\ UNCHANGED mkvars

\* Line 245: Main receives the outcome, prints it, and the script ends.
MainJobReturned(i) ==
  /\ runs[i].pc = "return"
  /\ runs' = [runs EXCEPT ![i] = [@ EXCEPT !.pc = "exited", !.exit = 0]]
  /\ UNCHANGED <<hostTools, tasks>>
  /\ UNCHANGED govars
  /\ UNCHANGED mkvars

\* =========================================================================
\*                                 Clock
\* =========================================================================
Waiting == {e \in DOMAIN execs : execs[e].pc = "wait"}
PSWaiting == {i \in DOMAIN runs : runs[i].pc = "wait"}

\* Instants the clock may not pass without the program acting.
HardEvents ==
  {Deadline(e) : e \in Waiting}
  \cup (IF cronRunning THEN {entries[i].next : i \in DOMAIN entries} ELSE {})

SoftEvents ==
  {execs[e].start + 1 : e \in Waiting} \cup {runs[i].start + 1 : i \in PSWaiting}

\* Statements that take no time are run before the clock moves.
Urgent ==
  \/ \E e \in DOMAIN execs : execs[e].pc \in {"begin", "returned", "save"}
  \/ \E i \in DOMAIN runs : runs[i].pc \in {"main", "invoke", "return"}

Tick ==
  /\ now < MaxTime
  /\ ~Urgent
  /\ \A t \in HardEvents : t > now
  /\ LET limit == Min(HardEvents \cup {MaxTime})
     IN  \E t \in HardEvents \cup SoftEvents \cup {MaxTime} :
           /\ t > now
           /\ t <= limit
           /\ now' = t
  /\ UNCHANGED <<starts, cronRunning, heap, jobs, entries, execs, files, writeFails>>
  /\ UNCHANGED psvars
  /\ UNCHANGED mkvars

\* =========================================================================
\*                             Specification
\* =========================================================================
NoFile == [content |-> "", value |-> ZeroConfig]
NoProcess == [pid |-> 0, alive |-> FALSE, configFile |-> NoFile]
NoMake == [n |-> 0, target |-> "", out |-> <<>>, curl |-> "", python |-> 0]

Init ==
  /\ now = InitNow
  /\ starts = 0
  /\ cronRunning = FALSE
  /\ heap = <<>>
  /\ jobs = [id \in JobIDs |-> 0]
  /\ entries = <<>>
  /\ execs = <<>>
  /\ files = {}
  /\ writeFails = {}
  /\ hostTools \in HostToolSets
  /\ tasks = [j \in PSJobIDs |-> NoTask]
  /\ runs = <<>>
  /\ shell = ""
  /\ runnerProc = NoProcess
  /\ pidFile = <<>>
  /\ environ = <<>>
  /\ config = ZeroConfig
  /\ stderr = <<>>
  /\ console = NoMake

Next ==
  \/ Start
  \/ CronFire
  \/ \E e \in DOMAIN execs : executeJobBegin(e)
  \/ \E e \in DOMAIN execs : ProcessExit(e)
  \/ \E e \in DOMAIN execs : ContextDeadline(e)
  \/ \E e \in DOMAIN execs : executeJobStatus(e)
  \/ \E e \in DOMAIN execs : saveJobResult(e)
  \/ PSInvoke
  \/ \E i \in DOMAIN runs : MainInvalidJob(i)
  \/ \E i \in DOMAIN runs : MainExecuteJob(i)
  \/ \E i \in DOMAIN runs : MainStartRunner(i)
  \/ \E i \in DOMAIN runs : MainInstallScheduler(i)
  \/ \E i \in DOMAIN runs : MainStatus(i)
  \/ \E i \in DOMAIN runs : MainStopRunner(i)
  \/ \E i \in DOMAIN runs : InvokeDataMinerJob(i)
  \/ \E i \in DOMAIN runs : PSProcessExit(i)
  \/ \E i \in DOMAIN runs : MainJobReturned(i)
  \/ Tick

Spec == Init /\ [][Next]_vars

\* =========================================================================
\*            The runner loaded with other catalogs than the built-in
\* =========================================================================
\* Job values handed to addJob: a job due every minute whose timeout reaches
\* past its next slot, a second definition under the same ID, another job due every
\* second minute, a manual job, and a job whose schedule does not parse.
JobEveryMinute ==
  [ID |-> "sync-devtools-hub", Command |-> "make",
   Schedule |-> "* * * * *", Timeout |-> Minute + 5, Status |-> "active"]

JobSameID ==
  [ID |-> "sync-devtools-hub", Command |-> "python3",
   Schedule |-> "*/2 * * * *", Timeout |-> Minute + 5, Status |-> "active"]

JobOther ==
  [ID |-> "governance-report-daily", Command |-> "python3",
   Schedule |-> "*/2 * * * *", Timeout |-> 10 * Minute, Status |-> "active"]

JobManual ==
  [ID |-> "cleanup-old-artifacts", Command |-> "powershell",
   Schedule |-> "", Timeout |-> 15 * Minute, Status |-> "active"]

JobBadSchedule ==
  [ID |-> "ecosystem-mining-weekly", Command |-> "python3",
   Schedule |-> "every monday", Timeout |-> 30 * Minute, Status |-> "active"]

Catalogs ==
  { <<JobEveryMinute, JobOther>>, <<JobEveryMinute, JobSameID>>,
    <<JobEveryMinute, JobManual>>, <<JobEveryMinute, JobBadSchedule>> }

\* Start with the jobs of catalog cat added in place of the built-in ones.
LoadStart ==
  /\ starts = 0
  /\ runs = <<>>
  /\ \E cat \in Catalogs :
       LET st == addJobs([heap |-> heap, jobs |-> jobs, entries |-> entries],
                         cat, 1, cronRunning, now)
       IN  /\ heap' = st.heap
           /\ jobs' = st.jobs
           /\ entries' = cronStart(st.entries, cronRunning, now)
  /\ cronRunning' = TRUE
  /\ starts' = starts + 1
  /\ UNCHANGED <<now, execs, files, writeFails>>
  /\ UNCHANGED psvars
  /\ UNCHANGED mkvars

LoadTick ==
  /\ now < MaxLoadTime
  /\ ~Urgent
  /\ \A t \in HardEvents : t > now
  /\ LET limit == Min(HardEvents \cup {MaxLoadTime})
     IN  \E t \in HardEvents \cup SoftEvents \cup {MaxLoadTime} :
           /\ t > now
           /\ t <= limit
           /\ now' = t
  /\ UNCHANGED <<starts, cronRunning, heap, jobs, entries, execs, files, writeFails>>
  /\ UNCHANGED psvars
  /\ UNCHANGED mkvars

NextLoad ==
  \/ LoadStart
  \/ CronFire
  \/ \E e \in DOMAIN execs : executeJobBegin(e)
  \/ \E e \in DOMAIN execs : ProcessExit(e)
  \/ \E e \in DOMAIN execs : ContextDeadline(e)
  \/ \E e \in DOMAIN execs : executeJobStatus(e)
  \/ \E e \in DOMAIN execs : saveJobResult(e)
  \/ LoadTick

\* The host of the Go runner: what Get-Command resolves plays no part.
InitGo == Init /\ hostTools = AllTools

SpecLoad == InitGo /\ [][NextLoad]_vars

\* =========================================================================
\*                 The Go runner under the Makefile targets
\* =========================================================================
\* The shells make may run a recipe with, and the process ids $! may give.
Shells == {"dash", "bash"}
RunnerPids == {4711, 4712}

\* A word of a command line: a text, or the decimal form of a process id.
Word(t) == [text |-> t, pid |-> 0]
PidWord(p) == [text |-> "", pid |-> p]

\* echo "Runner PID: $!" > .runner.pid ; $(cat .runner.pid) splits the
\* line into words again.
RunnerPidLine(p) == <<Word("Runner"), Word("PID:"), PidWord(p)>>

\* The processes the kill builtin signals when given args: bash reports
\* each argument that is no process id and goes on to the next, dash stops
\* at the first such argument.
KillTargets(args, sh) ==
  IF sh = "bash"
  THEN {args[i].pid : i \in {k \in DOMAIN args : args[k].pid # 0}}
  ELSE {args[i].pid : i \in {k \in DOMAIN args : \A m \in 1..k : args[m].pid # 0}}

\* The environments the runner may inherit from make.
Environs ==
  { <<EnvEntry("PATH", "/usr/bin")>>,
    <<EnvEntry("PATH", "/usr/bin"), EnvEntry("GITHUB_TOKEN", "ghp_host")>>,
    <<EnvEntry("PATH", "/usr/bin"), EnvEntry("DATA_MINER_RUNNER_ID", "ci-7")>> }

\* What config/go_runner.json may be: absent, not JSON, or a JSON object.
ConfigFiles ==
  { [content |-> "absent", value |-> ZeroConfig],
    [content |-> "garbage", value |-> ZeroConfig] }
  \cup { [content |-> "json",
          value |-> [RunnerID |-> "data-miner-local", WorkspacePath |-> "./workspace",
                     LogPath |-> "./logs/runner", GitHubToken |-> tok]] :
          tok \in {"", "ghp_cfg"} }

\* Variant: the error of json.Unmarshal is not returned.
loadConfigUnmarshalUnchecked(file) ==
  IF file.content = "absent" THEN [config |-> ZeroConfig, err |-> "ReadFile"]
  ELSE [config |-> file.value, err |-> ""]

\* loadConfig: the error of os.ReadFile or of json.Unmarshal, "" for nil.
loadConfig(file) ==
  IF file.content = "absent" THEN [config |-> ZeroConfig, err |-> "ReadFile"]
  ELSE IF file.content # "json" THEN [config |-> file.value, err |-> "Unmarshal"]
  ELSE [config |-> file.value, err |-> ""]

\* NewLocalRunner: no runner when the configuration or the log file fails.
NewLocalRunner(file, logOK) ==
  LET loaded == loadConfig(file)
  IN  IF loaded.err # ""
      THEN [runner |-> FALSE, config |-> ZeroConfig, err |-> "erreur chargement config"]
      ELSE IF ~logOK
      THEN [runner |-> FALSE, config |-> ZeroConfig, err |-> "erreur creation log"]
      ELSE [runner |-> TRUE, config |-> loaded.config, err |-> ""]

\* The run of a Makefile target that follows the last one: the lines it
\* printed, how its curl ended ("" when it ran none) and how many times it
\* ran $(PYTHON) scripts/ecosystem_mining.py.
Made(target, out, curl, python) ==
  [n |-> console.n + 1, target |-> target, out |-> out, curl |-> curl,
   python |-> python]

\* [ -f ".runner.pid" ] && kill -0 $(cat .runner.pid) 2>/dev/null : the exit
\* status of kill -0 is 0 when a process it was let to signal is alive.
RunnerActive(file, proc, sh) ==
  /\ file # <<>>
  /\ proc.alive
  /\ proc.pid \in KillTargets(file, sh)

\* local-runner-start, bin/data-miner-runner being built: the runner is
\* started in the background and main runs NewLocalRunner and Start, or ends
\* in log.Fatalf when NewLocalRunner returns an error; the pid line is
\* written in both cases.
LocalRunnerStart ==
  /\ runnerProc = NoProcess
  /\ starts = 0
  /\ runs = <<>>
  /\ \E sh \in Shells, p \in RunnerPids, env \in Environs,
        file \in ConfigFiles, logOK \in BOOLEAN :
       LET made == NewLocalRunner(file, logOK)
           configOK == made.runner
       IN
       /\ shell' = sh
       /\ pidFile' = RunnerPidLine(p)
       /\ console' = Made("local-runner-start", <<"Go Runner demarre">>, "", 0)
       /\ environ' = env
       /\ config' = made.config
       /\ stderr' = IF configOK THEN stderr
                    ELSE Append(stderr, [msg |-> "Erreur creation runner", err |-> made.err])
       /\ runnerProc' = [pid |-> p, alive |-> configOK, configFile |-> file]
       /\ IF configOK
          THEN LET st == addDataMinerJobs([heap |-> heap, jobs |-> jobs,
                                           entries |-> entries], cronRunning, now)
               IN  /\ heap' = st.heap
                   /\ jobs' = st.jobs
                   /\ entries' = cronStart(st.entries, cronRunning, now)
                   /\ cronRunning' = TRUE
                   /\ starts' = starts + 1
          ELSE UNCHANGED <<heap, jobs, entries, cronRunning, starts>>
  /\ UNCHANGED <<now, execs, files, writeFails>>
  /\ UNCHANGED psvars

\* The runner has no signal handler: SIGTERM ends the process, and with it
\* the cron engine and every goroutine that is inside executeJob.
Terminated(es) ==
  [e \in DOMAIN es |-> IF es[e].pc # "done" THEN [es[e] EXCEPT !.pc = "aborted"]
                                            ELSE es[e]]

\* local-runner-stop: with .runner.pid present, kill $(cat .runner.pid),
\* errors of kill ignored, then the file is removed and "Runner arrete" is
\* printed; without the file only a message is printed.
LocalRunnerStop ==
  /\ IF pidFile # <<>>
     THEN LET killed == runnerProc.alive /\ runnerProc.pid \in KillTargets(pidFile, shell)
          IN  /\ runnerProc' = IF killed THEN [runnerProc EXCEPT !.alive = FALSE]
                                         ELSE runnerProc
              /\ cronRunning' = IF killed THEN FALSE ELSE cronRunning
              /\ execs' = IF killed THEN Terminated(execs) ELSE execs
              /\ console' = Made("local-runner-stop", <<"Runner arrete">>, "", 0)
     ELSE /\ console.n < MaxMakes
          /\ console' = Made("local-runner-stop", <<"Aucun runner actif trouve">>, "", 0)
          /\ UNCHANGED <<runnerProc, cronRunning, execs>>
  /\ pidFile' = <<>>
  /\ UNCHANGED <<now, starts, heap, jobs, entries, files, writeFails, shell>>
  /\ UNCHANGED <<environ, config, stderr>>
  /\ UNCHANGED psvars

\* local-runner-status: "Runner actif" when the file is there and kill -0
\* succeeds, "Runner inactif" otherwise. Nothing else is touched.
LocalRunnerStatus ==
  /\ console.n < MaxMakes
  /\ console' = Made("local-runner-status",
                     IF RunnerActive(pidFile, runnerProc, shell)
                     THEN <<"Runner actif">> ELSE <<"Runner inactif">>, "", 0)
  /\ UNCHANGED govars
  /\ UNCHANGED psvars
  /\ UNCHANGED <<shell, runnerProc, pidFile, environ, config, stderr>>

\* How curl -X POST http://localhost:8080/api/jobs/ecosystem-mining may end.
\* The runner process opens no listening socket, so the request is answered
\* only when something else on the host serves port 8080; curl has no -f and
\* exits 0 on any HTTP answer.
CurlEnds == {"answered", "refused"}

\* analyze-ecosystem (the later recipe of the two in the Makefile, which is
\* the one make keeps): when the runner is found active the request is
\* posted, and a message is printed when curl fails; the next recipe line
\* runs the mining script in every case. No statement of the runner reads a
\* request, so no execution is started in it.
AnalyzeEcosystem ==
  /\ console.n < MaxMakes
  /\ \E end \in CurlEnds :
       LET active == RunnerActive(pidFile, runnerProc, shell)
           out == IF ~active THEN <<>>
                  ELSE IF end = "answered" THEN <<"Execution via Go Runner local">>
                  ELSE <<"Execution via Go Runner local",
                         "API runner inaccessible - execution directe">>
       IN  console' = Made("analyze-ecosystem", out,
                           IF active THEN end ELSE "", 1)
  /\ UNCHANGED govars
  /\ UNCHANGED psvars
  /\ UNCHANGED <<shell, runnerProc, pidFile, environ, config, stderr>>

NextMake ==
  \/ LocalRunnerStart
  \/ LocalRunnerStop
  \/ LocalRunnerStatus
  \/ AnalyzeEcosystem
  \/ CronFire
  \/ \E e \in DOMAIN execs : executeJobBegin(e)
  \/ \E e \in DOMAIN execs : ProcessExit(e)
  \/ \E e \in DOMAIN execs : ContextDeadline(e)
  \/ \E e \in DOMAIN execs : executeJobStatus(e)
  \/ \E e \in DOMAIN execs : saveJobResult(e)
  \/ Tick

SpecMake == Init /\ [][NextMake]_vars

\* =========================================================================
\*            The runner as main starts it, over two slots of a job
\* =========================================================================
\* main calls Start once on the runner it has made.
MainStart == starts = 0 /\ Start

OnceTick ==
  /\ now < MaxOnceTime
  /\ ~Urgent
  /\ \A t \in HardEvents : t > now
  /\ LET limit == Min(HardEvents \cup {MaxOnceTime})
     IN  \E t \in HardEvents \cup SoftEvents \cup {MaxOnceTime} :
           /\ t > now
           /\ t <= limit
           /\ now' = t
  /\ UNCHANGED <<starts, cronRunning, heap, jobs, entries, execs, files, writeFails>>
  /\ UNCHANGED psvars
  /\ UNCHANGED mkvars

NextOnce ==
  \/ MainStart
  \/ CronFire
  \/ \E e \in DOMAIN execs : executeJobBegin(e)
  \/ \E e \in DOMAIN execs : ProcessExit(e)
  \/ \E e \in DOMAIN execs : ContextDeadline(e)
  \/ \E e \in DOMAIN execs : executeJobStatus(e)
  \/ \E e \in DOMAIN execs : saveJobResult(e)
  \/ OnceTick

SpecOnce == InitGo /\ [][NextOnce]_vars

\* =========================================================================
\*                               Properties
\* =========================================================================
Done == {e \in DOMAIN execs : execs[e].pc = "done"}

\* The process of execution e was started and exited by itself.
Exited(e) == execs[e].spawned /\ execs[e].exit # -1

\* Run i is an execute-job of a catalog job.
ValidJobRun(i) ==
  runs[i].action = "execute-job" /\ runs[i].jobName # "" /\ runs[i].jobName \in PSJobIDs

C2_WaitBoundedByTimeout ==
  /\ \A e \in Waiting : now - execs[e].start <= heap[execs[e].job].Timeout
  /\ \A i \in PSWaiting : now - runs[i].start <= PSDataMinerJobs[runs[i].jobName].timeout

\* C3: an execute-job attempt of a job with a declared dependency that the
\* host does not resolve spawns no process, and its outcome is neither
\* "success" nor "failed".
HasMissingDependency(i) ==
  /\ ValidJobRun(i)
  /\ \E k \in DOMAIN PSDataMinerJobs[runs[i].jobName].dependencies :
       PSDataMinerJobs[runs[i].jobName].dependencies[k] \notin hostTools

C3_MissingDependencyNoProcess ==
  \A i \in DOMAIN runs :
    HasMissingDependency(i) =>
      /\ ~runs[i].spawned
      /\ runs[i].procExit = -1
      /\ runs[i].result.status \notin {"success", "failed"}
      /\ runs[i].pc \in {"return", "exited"} => runs[i].result.status = "error"

C3_Witness ==
  \E i \in DOMAIN runs :
    /\ HasMissingDependency(i)
    /\ runs[i].pc = "exited"
    /\ runs[i].result.status = "error"
    /\ ~runs[i].spawned

\* C4: two executions of the same job that ran concurrently leave two
\* distinct result files, each holding the result of its own execution.
Concurrent(a, b) == a \in execs[b].with \/ b \in execs[a].with

Persisted(e) == [name |-> execs[e].file, data |-> execs[e].result] \in files

C4_ConcurrentRecordsDistinct ==
  \A a, b \in Done :
    (/\ a # b
     /\ heap[execs[a].job].ID = heap[execs[b].job].ID
     /\ Concurrent(a, b)
     /\ execs[a].written /\ execs[b].written)
    => /\ execs[a].file # execs[b].file
       /\ Persisted(a)
       /\ Persisted(b)

\* C5: every call of executeJob ends with exactly one call of saveJobResult,
\* made after the wait for the process has returned, whatever the outcome.
C5_SavedExactlyOnce ==
  \A e \in DOMAIN execs :
    /\ execs[e].pc = "done" => execs[e].saves = 1
    /\ execs[e].pc # "done" => execs[e].saves = 0

C5_Witness ==
  \E a, b \in Done :
    /\ execs[a].err = LaunchError /\ execs[a].saves = 1
    /\ execs[b].timedOut /\ execs[b].saves = 1

C7_TimedOutDistinctFromFailure ==
  \A a, b \in Done :
    (execs[a].timedOut /\ Exited(b) /\ execs[b].exit # 0)
    => execs[a].result.status # execs[b].result.status

\* C8: the outcome stored when the process could not be started differs
\* from the outcome stored when the process ran and exited nonzero, in
\* executeJob and in Invoke-DataMinerJob.
C8_LaunchErrorDistinctFromFailure ==
  /\ \A a, b \in Done :
       (execs[a].err = LaunchError /\ Exited(b) /\ execs[b].exit # 0)
       => execs[a].result.status # execs[b].result.status
  /\ \A i \in DOMAIN runs :
       (ValidJobRun(i) /\ ~HasMissingDependency(i) /\ ~runs[i].spawned
        /\ runs[i].pc \in {"return", "exited"})
       => runs[i].result.status \notin {"failed", "success"}

InvalidJobRun(i) ==
  runs[i].action = "execute-job" /\ (runs[i].jobName = "" \/ runs[i].jobName \notin PSJobIDs)

C10_InvalidRunsFail ==
  \A i \in DOMAIN runs :
    InvalidJobRun(i) =>
      /\ ~runs[i].spawned
      /\ runs[i].result = NoOutcome
      /\ runs[i].pc \in {"main", "exited"}
      /\ runs[i].pc = "exited" =>
           runs[i].exit = 1 /\ runs[i].thrown = "Job invalide ou manquant"

C10_InvalidRunStepFrame ==
  \A i \in DOMAIN runs :
    (InvalidJobRun(i) /\ runs[i].pc = "main" /\ runs'[i].pc # "main")
    => tasks' = tasks /\ hostTools' = hostTools /\ files' = files

C10_UnknownJobNotFound == []C10_InvalidRunsFail /\ [][C10_InvalidRunStepFrame]_vars

C10_Witness ==
  \E i \in DOMAIN runs :
    /\ runs[i].action = "execute-job" /\ runs[i].jobName = "no-such-job"
    /\ runs[i].pc = "exited" /\ runs[i].exit = 1
    /\ \E j \in PSJobIDs : tasks[j].state = "Ready"

\* C11: a running scheduler never holds a job definition that another
\* definition with the same id has replaced in the catalog: every definition
\* that was loaded is the one the catalog keeps under its id.
C11_DuplicateIDFailsLoad ==
  cronRunning => \A ptr \in DOMAIN heap : jobs[heap[ptr].ID] = ptr

\* C12: a started runner holds no catalog job with a non-empty schedule and
\* no registered trigger.
C12_BadScheduleFailsLoad ==
  cronRunning =>
    \A id \in JobIDs :
      (jobs[id] # 0 /\ heap[jobs[id]].Schedule # "")
      => \E i \in DOMAIN entries : entries[i].job = jobs[id]

\* C13: after any number n >= 1 of Start calls the runner holds what one
\* call leaves: one Job object and one trigger per built-in job, the catalog
\* pointing at that object.
EntriesOf(id) == {i \in DOMAIN entries : heap[entries[i].job].ID = id}

C13_StartIdempotent ==
  starts >= 1 =>
    /\ Len(heap) = Len(DataMinerJobs)
    /\ \A id \in JobIDs :
         /\ Cardinality(EntriesOf(id)) = 1
         /\ jobs[id] \in 1..Len(DataMinerJobs)

\* C14: once an execution of a job has ended in an error (nonzero exit,
\* timeout, launch error) the cron engine is still running, the trigger of
\* that job is still registered, and every trigger is armed for its next slot
\* or due now; from then on no trigger is removed, the clock never passes a
\* slot of any trigger, and a firing starts an execution for every due one.
Failed == {e \in DOMAIN execs : execs[e].err # NoErr}

C14_TriggersArmedAfterError ==
  Failed # {} =>
    /\ cronRunning
    /\ \A e \in Failed : \E i \in DOMAIN entries : entries[i].job = execs[e].job
    /\ \A i \in DOMAIN entries :
         /\ entries[i].next > 0
         /\ entries[i].next <= CronNext(entries[i].schedule, now)

C14_StepAfterError ==
  Failed # {} =>
    /\ Len(entries') >= Len(entries)
    /\ \A i \in DOMAIN entries :
         /\ entries'[i].job = entries[i].job
         /\ entries'[i].schedule = entries[i].schedule
         /\ now' # now => now' <= entries[i].next
         /\ entries'[i].next # entries[i].next =>
              \E e \in DOMAIN execs' \ DOMAIN execs :
                execs'[e].job = entries[i].job /\ execs'[e].pc = "begin"

C14_ErrorLeavesSchedulerRunning ==
  []C14_TriggersArmedAfterError /\ [][C14_StepAfterError]_vars

C14_Witness ==
  \E a, b, c \in DOMAIN execs :
    /\ execs[a].pc = "done" /\ execs[a].err # NoErr
    /\ execs[b].job = execs[a].job /\ execs[b].start > execs[a].start
    /\ execs[c].job # execs[a].job /\ execs[c].start > execs[a].start

\* C15: while an execution of a job A waits for its child process, a due
\* trigger of another job B can fire at once, and the execution of B it
\* starts can begin at once: neither waits for A.
C15_NotSerialized ==
  \A a \in DOMAIN execs :
    execs[a].pc = "wait" =>
      /\ (\E i \in DOMAIN entries :
            /\ entries[i].next <= now
            /\ heap[entries[i].job].ID # heap[execs[a].job].ID)
         => ENABLED CronFire
      /\ \A b \in DOMAIN execs :
           (execs[b].pc = "begin" /\ heap[execs[b].job].ID # heap[execs[a].job].ID)
           => ENABLED executeJobBegin(b)

C15_Witness ==
  \E a, b \in DOMAIN execs :
    /\ execs[a].pc = "wait" /\ execs[b].pc = "wait"
    /\ heap[execs[a].job].ID # heap[execs[b].job].ID
    /\ execs[a].start < execs[b].start
    /\ a \in execs[b].with

\* C16: a schedule slot of a job hands the job to the executor exactly once:
\* no two executions of one job id are started for the same slot.
C16_OncePerSlot ==
  \A a, b \in DOMAIN execs :
    (a # b /\ heap[execs[a].job].ID = heap[execs[b].job].ID /\ execs[a].start >= 0)
    => execs[a].start # execs[b].start

\* C17: when the trigger of a job is due while an earlier execution of the
\* same Job object still waits for its process, the trigger can fire at
\* once, the firing starts a new execution for it (the slot is not skipped),
\* and the new execution can begin at once (it is not queued).
C17_OwnTriggerFires ==
  \A a \in DOMAIN execs :
    execs[a].pc = "wait" =>
      /\ (\E i \in DOMAIN entries :
            entries[i].next <= now /\ entries[i].job = execs[a].job)
         => ENABLED CronFire
      /\ \A b \in DOMAIN execs :
           (execs[b].pc = "begin" /\ execs[b].job = execs[a].job)
           => ENABLED executeJobBegin(b)

C17_FiringStartsExecution ==
  \A i \in DOMAIN entries :
    entries'[i].next # entries[i].next =>
      \E e \in DOMAIN execs' \ DOMAIN execs :
        /\ execs'[e].job = entries[i].job
        /\ execs'[e].pc = "begin"
        /\ \A a \in DOMAIN execs : execs[a].pc = "wait" => a \in execs'[e].with

C17_SameJobOverlaps == []C17_OwnTriggerFires /\ [][C17_FiringStartsExecution]_vars

C17_Witness ==
  \E a, b \in DOMAIN execs :
    /\ execs[a].job = execs[b].job
    /\ execs[a].pc = "wait" /\ execs[b].pc = "wait"
    /\ execs[a].start < execs[b].start

\* C20: the Status of a Job object is the outcome of the execution of that
\* job that completed last, also when executions of the job overlap, and it
\* tells the kinds of outcome apart: two jobs whose last executions ended in
\* different ways (success, nonzero exit, timeout, launch error) do not hold
\* the same Status.
Finished(ptr) ==
  {e \in DOMAIN execs : execs[e].job = ptr /\ execs[e].pc \in {"save", "done"}}

EndOf(e) == execs[e].start + execs[e].duration

LastFinished(ptr) ==
  {e \in Finished(ptr) : \A f \in Finished(ptr) : EndOf(f) <= EndOf(e)}

C20_StatusOfLastCompleted ==
  \A ptr \in DOMAIN heap :
    Finished(ptr) # {} =>
      \E e \in LastFinished(ptr) : heap[ptr].Status = StatusOf(execs[e].err)

C20_StatusIsLastOutcome ==
  /\ C20_StatusOfLastCompleted
  /\ \A p, q \in DOMAIN heap :
       \A e \in LastFinished(p), f \in LastFinished(q) :
         (LastFinished(p) = {e} /\ LastFinished(q) = {f}
          /\ execs[e].err.kind # execs[f].err.kind)
         => heap[p].Status # heap[q].Status

\* C18: a stop (stop-runner of the script, local-runner-stop of the
\* Makefile) leaves every execution that is running as it is: the step of a
\* stop changes no call of executeJob that waits for its process and no other
\* invocation of the script.
StopRunnerStep(i) ==
  runs[i].action = "stop-runner" /\ runs[i].pc = "main" /\ runs'[i].pc = "exited"

LocalRunnerStopStep == pidFile # <<>> /\ pidFile' = <<>>

C18_StopStep ==
  /\ LocalRunnerStopStep =>
       \A e \in DOMAIN execs : execs[e].pc = "wait" => execs'[e] = execs[e]
  /\ \A i \in DOMAIN runs :
       StopRunnerStep(i) => \A k \in DOMAIN runs \ {i} : runs'[k] = runs[k]

C18_StopKeepsInFlight == [][C18_StopStep]_vars

\* C21: once the catalog is loaded (Start has returned), no step adds,
\* removes or replaces a Job object or changes a field of one.
C21_CatalogReadOnly == [][starts >= 1 => (heap' = heap /\ jobs' = jobs)]_vars

\* C22: every variable of the environment the runner inherited has the same
\* value in the environment a child process is given.
C22_EnvAdditiveOnly ==
  \A e \in DOMAIN execs :
    execs[e].start >= 0 =>
      \A i \in DOMAIN environ :
        Getenv(execs[e].env, environ[i].key, Len(execs[e].env))
          = Getenv(environ, environ[i].key, Len(environ))

\* C30: the entries executeJob adds to the environment of a child are the
\* runner identifier and the workspace path, nothing else of the
\* configuration.
C30_OnlyRunnerIdAndWorkspaceAdded ==
  \A e \in DOMAIN execs :
    execs[e].start >= 0 =>
      \A i \in DOMAIN execs[e].env :
        i > Len(environ) =>
          execs[e].env[i] \in {EnvEntry("DATA_MINER_RUNNER_ID", config.RunnerID),
                               EnvEntry("DATA_MINER_WORKSPACE", config.WorkspacePath)}

\* C23: when the write of a result file has failed, the failure has been
\* reported on standard error, the call of executeJob has ended as any
\* other, and the cron engine still runs.
C23_WriteFailureReported ==
  \A e \in DOMAIN execs :
    (execs[e].saves = 1 /\ ~execs[e].written) =>
      /\ stderr # <<>>
      /\ execs[e].pc = "done"
      /\ cronRunning

\* C24: when the configuration file cannot be read or is not JSON, the
\* runner process that was started has ended with a fatal message, there is
\* no runner, the cron engine was never started, no job is registered and no
\* job is executed.
C24_BadConfigAbortsStartup ==
  (runnerProc.pid # 0 /\ runnerProc.configFile.content # "json") =>
    /\ ~runnerProc.alive
    /\ stderr # <<>>
    /\ config = ZeroConfig
    /\ starts = 0 /\ ~cronRunning
    /\ heap = <<>> /\ entries = <<>>
    /\ execs = <<>>

C24_Witness ==
  /\ runnerProc.pid # 0
  /\ runnerProc.configFile.content = "garbage"
  /\ now > InitNow

\* C25: a failed execution of a job is retried: once the clock has moved
\* past the end of an execution that ended in an error, a later execution of
\* the same job has been started, before the next slot of the job.
C25_FailedJobRetried ==
  \A a \in DOMAIN execs :
    (execs[a].pc = "done" /\ execs[a].err # NoErr /\ now > EndOf(a)) =>
      \E b \in DOMAIN execs :
        /\ b > a
        /\ execs[b].job = execs[a].job
        /\ \A i \in DOMAIN entries :
             entries[i].job = execs[a].job =>
               execs[b].start < CronNext(entries[i].schedule, execs[a].start)

\* C26: a job with an empty schedule is in the catalog, has no trigger, and
\* is never executed, however many slots of other jobs the timer reaches.
C26_ManualJobNeverFires ==
  \A ptr \in DOMAIN heap :
    heap[ptr].Schedule = "" =>
      /\ jobs[heap[ptr].ID] = ptr
      /\ \A i \in DOMAIN entries : entries[i].job # ptr
      /\ \A e \in DOMAIN execs : execs[e].job # ptr

C26_Witness ==
  /\ \E ptr \in DOMAIN heap : heap[ptr].Schedule = ""
  /\ \E a, b \in DOMAIN execs :
       /\ execs[a].pc = "done"
       /\ execs[b].pc = "done"
       /\ execs[a].start < execs[b].start

\* C27: the output stored in a record never exceeds a fixed maximum, here
\* any maximum smaller than what the most talkative process writes.
C27_OutputLimit == MaxOutput - 1

C27_StoredOutputBounded ==
  \A e \in DOMAIN execs :
    execs[e].saves = 1 => execs[e].result.output <= C27_OutputLimit

\* C28: every record saveJobResult builds is consistent with itself: its
\* status is "completed" exactly when its error is null, and "failed"
\* exactly when its error is the error of the execution it records.
C28_RecordSelfConsistent ==
  \A e \in DOMAIN execs :
    execs[e].saves = 1 =>
      /\ execs[e].result.status = "completed"
           <=> execs[e].result.error = [msg |-> "null", n |-> 0]
      /\ execs[e].result.status = "failed"
           <=> (execs[e].err # NoErr /\ execs[e].result.error = ErrorString(execs[e].err))

AnalyzeEcosystemStep ==
  console'.n = console.n + 1 /\ console'.target = "analyze-ecosystem"

C31_AnalyzeStep ==
  AnalyzeEcosystemStep =>
    IF RunnerActive(pidFile, runnerProc, shell) /\ console'.curl = "answered"
    THEN Len(execs') = Len(execs) + 1 /\ console'.python = 0
    ELSE execs' = execs /\ console'.python = 1

C31_MiningRunsOnce == [][C31_AnalyzeStep]_vars

\* C32: with .runner.pid written by local-runner-start, a run of
\* local-runner-status while the runner process is alive prints "Runner
\* actif", and a run of local-runner-stop that prints "Runner arrete" and
\* removes the file leaves that process not alive.
LocalRunnerStatusStep ==
  console'.n = console.n + 1 /\ console'.target = "local-runner-status"

C32_Step ==
  /\ (LocalRunnerStatusStep /\ pidFile # <<>> /\ runnerProc.alive)
       => console'.out = <<"Runner actif">>
  /\ (LocalRunnerStopStep /\ console'.out = <<"Runner arrete">>)
       => ~runnerProc'.alive

C32_StatusAndStopTrackProcess == [][C32_Step]_vars

\* C33: a start-runner with -Schedule manual changes no scheduled task; a
\* start-runner with another -Schedule leaves, for every catalog job whose
\* own schedule is daily, hourly or weekly and whose registration did not
\* fail, one task DataMiner-<job> with the trigger of the job's own schedule,
\* also when the task was there before; a job whose registration failed
\* keeps what it had, and the tasks of the other jobs are registered all the
\* same.
StartRunnerStep(i) ==
  runs[i].action = "start-runner" /\ runs[i].pc = "main" /\ runs'[i].pc = "exited"

Scheduled(j) == PSDataMinerJobs[j].schedule \in {"daily", "hourly", "weekly"}

C33_Step ==
  \A i \in DOMAIN runs :
    StartRunnerStep(i) =>
      IF runs[i].schedule = "manual"
      THEN tasks' = tasks
      ELSE \A j \in PSJobIDs :
             IF Scheduled(j) /\ <<"ERROR", j>> \notin runs'[i].taskLog
             THEN /\ tasks'[j].state # "absent"
                  /\ tasks'[j].trigger = PSDataMinerJobs[j].schedule
             ELSE tasks'[j] = tasks[j]

C33_OneTaskPerScheduledJob == [][C33_Step]_vars

\* A start-runner -Schedule daily has run in which the registration of one
\* job failed: that job has no task, every other job has the task of its own
\* schedule, an hourly one among them.
C33_Witness ==
  \E i \in DOMAIN runs :
    /\ runs[i].action = "start-runner" /\ runs[i].schedule = "daily"
    /\ runs[i].pc = "exited"
    /\ \E j \in PSJobIDs :
         /\ <<"ERROR", j>> \in runs[i].taskLog
         /\ tasks[j] = NoTask
         /\ \A k \in PSJobIDs \ {j} :
              /\ <<"INFO", k>> \in runs[i].taskLog
              /\ tasks[k] = [state |-> "Ready", trigger |-> PSDataMinerJobs[k].schedule]
         /\ \E k \in PSJobIDs \ {j} : tasks[k].trigger = "hourly"

====
